---------------------------- MODULE Spec2Model ----------------------------
(***************************************************************************)
(* Astrogematria scoring engine (astrogematria.py, v3.5).                  *)
(*                                                                         *)
(* Numbers.  Python floats are modelled by integers:                       *)
(*   - an angle is a whole number of units, Unit units to the degree;      *)
(*   - float addition and subtraction round to the nearest value with a   *)
(*     Prec-bit significand, ties to even (fl), as IEEE-754 does with 53;  *)
(*   - products of table weights are exact rationals over a fixed          *)
(*     denominator (ImpScale for Importance, QScale for Quality).          *)
(* Chart longitudes fed to the evaluation are whole degrees, on which fl   *)
(* is the identity, so the evaluation is the exact arithmetic of the code. *)
(***************************************************************************)
EXTENDS Integers, Sequences, FiniteSets, TLC

VARIABLES
    pc,            \* position of the running call
    arg,           \* argument of a call of a pure function
    out,           \* its result
    term,          \* evalua_termino_con_carta: term
    posiciones,    \* evalua_termino_con_carta: posiciones, as its items() in order
    idx,           \* number of items of posiciones the loop has consumed
    grado,         \* grado
    regentes,      \* regentes
    detalles,      \* detalles
    import_sum,    \* import_sum
    quality_sum,   \* quality_sum
    has_aspect,    \* has_aspect
    has_conj,      \* has_conj
    res            \* the returned dict

vars == << pc, arg, out, term, posiciones, idx, grado, regentes, detalles,
           import_sum, quality_sum, has_aspect, has_conj, res >>

evalVars == << term, posiciones, idx, grado, regentes, detalles,
               import_sum, quality_sum, has_aspect, has_conj, res >>

None == "None"

--------------------------------------------------------------------------
(* Bounds *)

FracBits == 1        \* fractional bits of an angle: Unit = 2^FracBits
Prec == 10           \* significand bits of the modelled float format
MaxBodies == 2       \* chart entries of an evaluation under Spec
MaxLen == 3          \* characters of a term given to the normalizer
MaxVal == 800        \* |gematria value| given to the degree mapper
MaxK == 2            \* |k| in v + 360k
Window == 4          \* degrees around an aspect angle from which b is drawn

Unit == 2 ^ FracBits
Deg(n) == n * Unit
Full == Deg(360)

Abs(x) == IF x < 0 THEN -x ELSE x
Min(x, y) == IF x <= y THEN x ELSE y
Max(x, y) == IF x >= y THEN x ELSE y

--------------------------------------------------------------------------
(* Float rounding *)

RECURSIVE BitLen(_)
BitLen(n) == IF n = 0 THEN 0 ELSE 1 + BitLen(n \div 2)

\* x rounded to the nearest number with a Prec-bit significand, ties to even
fl(x) ==
    LET m == Abs(x)
        e == BitLen(m) - Prec
    IN  IF e <= 0 THEN x
        ELSE LET q    == 2 ^ e
                 sig  == m \div q
                 r    == m - sig * q
                 half == q \div 2
                 up   == IF r > half \/ (r = half /\ sig % 2 = 1)
                         THEN (sig + 1) * q ELSE sig * q
             IN  IF x < 0 THEN -up ELSE up

Representable(x) == fl(x) = x

--------------------------------------------------------------------------
(* Configuration tables *)

Conj  == "conjuncion"
Opos  == "oposicion"
Trig  == "trigono"
Cuad  == "cuadratura"
Sext  == "sextil"

\* ASPECTOS, in insertion order; peso is the table's integer
AspectOrder == << Conj, Opos, Trig, Cuad, Sext >>
AspectKinds == { AspectOrder[k] : k \in 1..Len(AspectOrder) }

ASPECTOS ==
    [ n \in AspectKinds |->
        CASE n = Conj -> [angulo |-> 0,   orbe |-> 3, peso |-> 4]
          [] n = Opos -> [angulo |-> 180, orbe |-> 3, peso |-> -2]
          [] n = Trig -> [angulo |-> 120, orbe |-> 3, peso |-> 2]
          [] n = Cuad -> [angulo |-> 90,  orbe |-> 3, peso |-> -2]
          [] n = Sext -> [angulo |-> 60,  orbe |-> 2, peso |-> 1] ]

\* 1/OrbScale is the unit of an orb factor: both orbs (3 and 2) divide 6
OrbScale == 6 * Unit

--------------------------------------------------------------------------
(* Utilities *)

\* mutant of clamp: the upper limit is forgotten
clamp_sin_techo(x, lo, hi) == Max(lo, x)

clamp(x, lo, hi) == Max(lo, Min(hi, x))

\* mutant of grado_astrogematrico: the outer modulo is forgotten
grado_sin_modulo(val) == 360 - (val % 360)

grado_astrogematrico(val) == (360 - (val % 360)) % 360

\* abs((a - b + 540) % 360 - 180); float % of a positive number is exact
dist_angular(a, b) ==
    Abs(fl((fl(fl(a - b) + Deg(540)) % Full) - Deg(180)))

\* 1 - delta/orbe in units of 1/OrbScale; delta in angle units, orbe in degrees
atenuado_por_orbe(delta, orbe) ==
    IF delta > Deg(orbe) THEN 0 ELSE OrbScale - (6 * delta) \div orbe

best0 == [nombre |-> "", delta |-> Deg(999), peso |-> 0]

RECURSIVE mejor_desde(_, _, _)
mejor_desde(k, d0, best) ==
    IF k > Len(AspectOrder) THEN best
    ELSE LET nombre == AspectOrder[k]
             cfg    == ASPECTOS[nombre]
             delta  == Abs(fl(d0 - Deg(cfg.angulo)))
             peso   == cfg.peso * atenuado_por_orbe(delta, cfg.orbe)
         IN  mejor_desde(k + 1, d0,
                 IF delta <= Deg(cfg.orbe) /\ Abs(peso) > Abs(best.peso)
                 THEN [nombre |-> nombre, delta |-> delta, peso |-> peso]
                 ELSE best)

mejor_aspecto(p_alfa, p_beta) == mejor_desde(1, dist_angular(p_alfa, p_beta), best0)

lon_to_sign(lon) == (lon % Full) \div Deg(30)

--------------------------------------------------------------------------
(* State of a specification that runs no evaluation *)

EvalIdle ==
    /\ term = << >> /\ posiciones = << >> /\ idx = 0 /\ grado = 0
    /\ regentes = {} /\ detalles = << >> /\ import_sum = 0 /\ quality_sum = 0
    /\ has_aspect = FALSE /\ has_conj = FALSE /\ res = None

--------------------------------------------------------------------------
(* The aspect matcher, applied to a pair of positions in both orders *)

Positions == { x \in 0..(Full - 1) : Representable(x) }

AspectAngles == { ASPECTOS[n].angulo : n \in AspectKinds }

\* separations within Window degrees of an aspect angle, on either side
Offsets ==
    { s * Deg(g) + w : s \in {-1, 1}, g \in AspectAngles,
                       w \in (-Deg(Window))..Deg(Window) }

InitAspect ==
    /\ pc = "call"
    /\ \E a \in Positions, k \in Offsets :
          /\ (a + k) % Full \in Positions
          /\ arg = [a |-> a, b |-> (a + k) % Full]
    /\ out = None
    /\ EvalIdle

CallMejorAspecto ==
    /\ pc = "call"
    /\ out' = [ab |-> mejor_aspecto(arg.a, arg.b), ba |-> mejor_aspecto(arg.b, arg.a)]
    /\ pc' = "ret"
    /\ UNCHANGED << arg, evalVars >>

SpecAspect == InitAspect /\ [][CallMejorAspecto]_vars

--------------------------------------------------------------------------
(* The degree mapper, applied to v and to v + 360k *)

InitGrado ==
    /\ pc = "call"
    /\ \E v \in (-MaxVal)..MaxVal, k \in (-MaxK)..MaxK : arg = [v |-> v, k |-> k]
    /\ out = None
    /\ EvalIdle

CallGrado ==
    /\ pc = "call"
    /\ LET g == grado_astrogematrico(arg.v)
       IN  out' = [g |-> g,
                   gk |-> grado_astrogematrico(arg.v + 360 * arg.k),
                   signo_idx |-> g \div 30]
    /\ pc' = "ret"
    /\ UNCHANGED << arg, evalVars >>

SpecGrado == InitGrado /\ [][CallGrado]_vars

--------------------------------------------------------------------------
(* Characters: ASCII characters stand for themselves, the others are named *)
(* by their code point                                                    *)

n_tilde   == "U+00F1"    \* LATIN SMALL LETTER N WITH TILDE
N_TILDE   == "U+00D1"    \* LATIN CAPITAL LETTER N WITH TILDE
c_cedilla == "U+00E7"    \* LATIN SMALL LETTER C WITH CEDILLA
C_CEDILLA == "U+00C7"    \* LATIN CAPITAL LETTER C WITH CEDILLA
a_acute   == "U+00E1"    \* LATIN SMALL LETTER A WITH ACUTE
O_ACUTE   == "U+00D3"    \* LATIN CAPITAL LETTER O WITH ACUTE
COMB_TILDE   == "U+0303" \* COMBINING TILDE
COMB_CEDILLA == "U+0327" \* COMBINING CEDILLA
COMB_ACUTE   == "U+0301" \* COMBINING ACUTE ACCENT

Lower == << "a","b","c","d","e","f","g","h","i","j","k","l","m",
            "n","o","p","q","r","s","t","u","v","w","x","y","z" >>
Upper == << "A","B","C","D","E","F","G","H","I","J","K","L","M",
            "N","O","P","Q","R","S","T","U","V","W","X","Y","Z" >>
Digits == { "0","1","2","3","4","5","6","7","8","9" }
UpperSet == { Upper[k] : k \in 1..26 }
LowerSet == { Lower[k] : k \in 1..26 }

\* unicodedata.normalize('NFKD', ch): the canonical decomposition
NFKD(ch) ==
    CASE ch = n_tilde   -> << "n", COMB_TILDE >>
      [] ch = N_TILDE   -> << "N", COMB_TILDE >>
      [] ch = c_cedilla -> << "c", COMB_CEDILLA >>
      [] ch = C_CEDILLA -> << "C", COMB_CEDILLA >>
      [] ch = a_acute   -> << "a", COMB_ACUTE >>
      [] ch = O_ACUTE   -> << "O", COMB_ACUTE >>
      [] OTHER          -> << ch >>

\* unicodedata.combining(ch) != 0
combining(ch) == ch \in { COMB_TILDE, COMB_CEDILLA, COMB_ACUTE }

\* str.upper(), one character
upper(ch) ==
    CASE ch \in LowerSet -> Upper[CHOOSE k \in 1..26 : Lower[k] = ch]
      [] ch = n_tilde    -> N_TILDE
      [] ch = c_cedilla  -> C_CEDILLA
      [] ch = a_acute    -> "U+00C1"
      [] OTHER           -> ch

\* unicodedata.normalize('NFKD', s)
RECURSIVE descompone(_)
descompone(s) == IF s = << >> THEN << >> ELSE NFKD(Head(s)) \o descompone(Tail(s))

\* s.upper()
mayusculas(s) == [ k \in 1..Len(s) |-> upper(s[k]) ]

\* line 102: s.replace of the two lowercase special letters
replace_especiales(s) ==
    LET rep(ch) == IF ch = n_tilde THEN N_TILDE
                   ELSE IF ch = c_cedilla THEN C_CEDILLA ELSE ch
    IN  [ k \in 1..Len(s) |-> rep(s[k]) ]

\* lines 103-104: decompose, drop the combining marks
sin_diacriticos(s) ==
    LET keep(ch) == ~ combining(ch) IN SelectSeq(descompone(s), keep)

\* line 106: re.sub(r'[^A-Z0-9<N~><C,>]', '', s)
permitido(ch) == ch \in UpperSet \cup Digits \cup { N_TILDE, C_CEDILLA }

normaliza_termino(s) ==
    SelectSeq(mayusculas(sin_diacriticos(replace_especiales(s))), permitido)

VALORES_ASTROGEMATRIA ==
    [ ch \in UpperSet \cup { N_TILDE, C_CEDILLA } |->
        CASE ch = "A" -> 1   [] ch = "B" -> 2   [] ch = "C" -> 20  [] ch = "D" -> 4
          [] ch = "E" -> 5   [] ch = "F" -> 80  [] ch = "G" -> 3   [] ch = "H" -> 8
          [] ch = "I" -> 10  [] ch = "J" -> 10  [] ch = "K" -> 20  [] ch = "L" -> 30
          [] ch = "M" -> 40  [] ch = "N" -> 50  [] ch = N_TILDE -> 50
          [] ch = "O" -> 70  [] ch = "P" -> 80  [] ch = "Q" -> 100 [] ch = "R" -> 200
          [] ch = "S" -> 300 [] ch = "T" -> 400 [] ch = "U" -> 6   [] ch = "V" -> 6
          [] ch = "W" -> 6   [] ch = "X" -> 60  [] ch = "Y" -> 10  [] ch = "Z" -> 7
          [] ch = C_CEDILLA -> 20 ]

RECURSIVE valor_astrogematrico(_)
valor_astrogematrico(termino) ==
    IF termino = << >> THEN 0
    ELSE (IF Head(termino) \in DOMAIN VALORES_ASTROGEMATRIA
          THEN VALORES_ASTROGEMATRIA[Head(termino)] ELSE 0)
         + valor_astrogematrico(Tail(termino))

--------------------------------------------------------------------------
(* The normalizer, applied to a text of at most MaxLen characters *)

Alphabet == { "a", "n", "c", "N", "C", "7", " ", "-",
              n_tilde, N_TILDE, c_cedilla, C_CEDILLA, a_acute, O_ACUTE,
              COMB_TILDE }

Texts == UNION { [1..n -> Alphabet] : n \in 0..MaxLen }

InitNorm ==
    /\ pc = "call"
    /\ arg \in Texts
    /\ out = None
    /\ EvalIdle

CallNormaliza ==
    /\ pc = "call"
    /\ out' = normaliza_termino(arg)
    /\ pc' = "ret"
    /\ UNCHANGED << arg, evalVars >>

SpecNorm == InitNorm /\ [][CallNormaliza]_vars

--------------------------------------------------------------------------
(* Bodies and weights.  Weights are the tables' decimals over a fixed      *)
(* denominator: 20 for the multipliers, 5 for the aspect weights, 10 for   *)
(* the valences                                                            *)

PLANETAS_TRAD == << "Sun", "Moon", "Mercury", "Venus", "Mars", "Jupiter", "Saturn" >>
PLANETAS_MOD  == << "Uranus", "Neptune", "Pluto" >>
ANGULOS       == << "Asc", "MC", "Desc", "IC" >>

\* the order in which obtener_posiciones inserts the bodies
BodyOrder == PLANETAS_TRAD \o PLANETAS_MOD \o ANGULOS
Bodies == { BodyOrder[k] : k \in 1..Len(BodyOrder) }
Angulos == { ANGULOS[k] : k \in 1..Len(ANGULOS) }
Planets == Bodies \ Angulos

MultDen == 20

PESO_PLANETA ==
    [ c \in Planets |->
        CASE c = "Moon" -> 18 [] c = "Mercury" -> 14 [] c = "Mars" -> 22
          [] c = "Saturn" -> 23 [] OTHER -> 20 ]

\* PESO_PLANETA.get(cuerpo, 1.0)
peso_planeta(c) == IF c \in DOMAIN PESO_PLANETA THEN PESO_PLANETA[c] ELSE MultDen

REGENTES_CLASICOS ==
    [ sg \in 0..11 |->
        CASE sg \in {0, 7}  -> {"Mars"}
          [] sg \in {1, 6}  -> {"Venus"}
          [] sg \in {2, 5}  -> {"Mercury"}
          [] sg = 3         -> {"Moon"}
          [] sg = 4         -> {"Sun"}
          [] sg \in {8, 11} -> {"Jupiter"}
          [] sg \in {9, 10} -> {"Saturn"} ]

RULER_MULT == 27          \* 1.35
LUM_IMPACT_MULT == 23     \* 1.15
ANGLE_IMPACT_MULT == 25   \* 1.25
QUALITY_SCALE == 3
LUMINARIES == { "Sun", "Moon" }

SIGNOS == << "Aries", "Tauro", "Geminis", "Cancer", "Leo", "Virgo",
             "Libra", "Escorpio", "Sagitario", "Capricornio", "Acuario", "Piscis" >>

WeightDen == 5

IMPACT_WEIGHTS ==
    [ n \in AspectKinds |->
        CASE n = Conj -> 13 [] n = Trig -> 5 [] n = Sext -> 4
          [] n = Cuad -> 5 [] n = Opos -> 6 ]

VALENCE_WEIGHTS ==
    [ n \in AspectKinds |->
        CASE n = Conj -> 10 [] n = Trig -> 6 [] n = Sext -> 4
          [] n = Cuad -> 5 [] n = Opos -> 6 ]

ValenceDen == 10

PLANET_VALENCE ==
    [ c \in Planets |->
        CASE c = "Jupiter" -> 10 [] c = "Venus" -> 9 [] c = "Sun" -> 7
          [] c = "Moon" -> 6 [] c = "Mercury" -> 2 [] c = "Mars" -> -7
          [] c = "Saturn" -> -9 [] c = "Uranus" -> -3 [] c = "Neptune" -> -3
          [] c = "Pluto" -> -6 ]

\* PLANET_VALENCE.get(cuerpo, 0.0)
planet_valence(c) == IF c \in DOMAIN PLANET_VALENCE THEN PLANET_VALENCE[c] ELSE 0

\* denominators of an Importance and of a Quality contribution
ImpScale == WeightDen * OrbScale * MultDen * MultDen * MultDen
QScale   == WeightDen * OrbScale * ValenceDen * MultDen * MultDen

\* num/den rounded to the nearest integer, ties to even
RoundHalfEven(num, den) ==
    LET m    == Abs(num)
        fl0  == m \div den
        r2   == 2 * (m - fl0 * den)
        n    == IF r2 > den \/ (r2 = den /\ fl0 % 2 = 1) THEN fl0 + 1 ELSE fl0
    IN  IF num < 0 THEN -n ELSE n

\* round() of the float that carries num/den: the nearest integer; when the
\* exact value lies midway between two, the float's representation error
\* decides, so either neighbour
RoundFloat(num, den) ==
    LET m    == Abs(num)
        fl0  == m \div den
        r2   == 2 * (m - fl0 * den)
        ns   == IF r2 > den THEN {fl0 + 1}
                ELSE IF r2 < den THEN {fl0} ELSE {fl0, fl0 + 1}
    IN  { IF num < 0 THEN -n ELSE n : n \in ns }

\* round(x, 3), round(x, 2), round(x, 1) of x = num/scale, in thousandths,
\* hundredths and tenths
Round3(num, scale) == RoundFloat(num, scale \div 1000)
Round2(num, scale) == RoundFloat(num, scale \div 100)
Round1(num, scale) == RoundFloat(num, scale \div 10)

--------------------------------------------------------------------------
(* evalua_termino_con_carta: the contributions of one body *)

\* mutant of mult_imp: an angle is weighted as a planet without a table entry
mult_imp_sin_angulos(cuerpo, regs) ==
    peso_planeta(cuerpo)
    * (IF cuerpo \in regs THEN RULER_MULT ELSE MultDen)
    * (IF cuerpo \in LUMINARIES THEN LUM_IMPACT_MULT ELSE MultDen)

\* lines 285-292, over MultDen^3
mult_imp(cuerpo, regs) ==
    IF cuerpo \in Angulos THEN ANGLE_IMPACT_MULT * MultDen * MultDen
    ELSE peso_planeta(cuerpo)
         * (IF cuerpo \in regs THEN RULER_MULT ELSE MultDen)
         * (IF cuerpo \in LUMINARIES THEN LUM_IMPACT_MULT ELSE MultDen)

\* line 295: imp, over ImpScale
impacto(cuerpo, nombre, orb_factor, regs) ==
    IMPACT_WEIGHTS[nombre] * orb_factor * mult_imp(cuerpo, regs)

\* mutant of factor_signo: the valence keeps its sign under every aspect
factor_signo_sin_abs(cuerpo, nombre) ==
    IF nombre \in {Conj, Trig, Sext} THEN planet_valence(cuerpo)
    ELSE -planet_valence(cuerpo)

\* lines 300-306: the signed factor, over ValenceDen
factor_signo(cuerpo, nombre) ==
    LET pv == planet_valence(cuerpo)
    IN  IF nombre = Conj THEN pv
        ELSE IF nombre \in {Trig, Sext} THEN Abs(pv)
        ELSE -Abs(pv)

\* lines 300-310: q of a planet, over QScale
calidad_cuerpo(cuerpo, nombre, orb_factor, regs) ==
    VALENCE_WEIGHTS[nombre] * orb_factor * factor_signo(cuerpo, nombre)
    * (IF cuerpo \in regs THEN RULER_MULT ELSE MultDen)
    * peso_planeta(cuerpo)

\* posiciones.get('Asc', 0.0)
asc_lon(pos) ==
    IF \E k \in 1..Len(pos) : pos[k].cuerpo = "Asc"
    THEN pos[CHOOSE k \in 1..Len(pos) : pos[k].cuerpo = "Asc"].lon
    ELSE 0

\* lines 256-258
regentes_de(pos) ==
    LET asc_sign == lon_to_sign(asc_lon(pos))
    IN  IF asc_sign \in DOMAIN REGENTES_CLASICOS THEN REGENTES_CLASICOS[asc_sign] ELSE {}

\* lines 317-325
detalle(cuerpo, lon, m, impacto_r, calidad_r) ==
    [ cuerpo     |-> cuerpo,
      es_angulo  |-> cuerpo \in Angulos,
      aspecto    |-> m.nombre,
      orb        |-> RoundHalfEven(100 * m.delta, Unit),
      impacto    |-> impacto_r,
      calidad    |-> IF cuerpo \in Angulos THEN 0 ELSE calidad_r,
      lon_cuerpo |-> RoundHalfEven(100 * lon, Unit) ]

--------------------------------------------------------------------------
(* evalua_termino_con_carta: labels and the hit list *)

ETQ_SIN_ASPECTOS == "impacto NO importante (sin aspectos)"
ETQ_MENOR        == "impacto menor (presente pero discreto)"
ETQ_IMPORTANTE   == "impacto IMPORTANTE"
ETQ_GUION        == "U+2014"

CONJ_FLOOR_X10 == 21     \* 2.1, the floor a conjunction gives Importance
MENOR_MAX == 2           \* 2.0, the largest 'minor' Importance
CAL_MAX == 10            \* the clamp of Quality
TOP_HITS == 8            \* [:8]

\* mutant of importancia_de: no floor for a conjunction
importancia_sin_suelo(isum, conj) == isum

\* lines 334-336, over ImpScale
importancia_de(isum, conj) ==
    IF conj THEN Max(isum, (CONJ_FLOOR_X10 * ImpScale) \div 10) ELSE isum

\* mutant of etq_importancia_de: the no-aspects case is forgotten
etq_importancia_sin_caso(asp, importancia) ==
    IF importancia <= MENOR_MAX * ImpScale THEN ETQ_MENOR ELSE ETQ_IMPORTANTE

\* lines 328-329 and 338-341
etq_importancia_de(asp, importancia) ==
    IF ~ asp THEN ETQ_SIN_ASPECTOS
    ELSE IF importancia <= MENOR_MAX * ImpScale THEN ETQ_MENOR ELSE ETQ_IMPORTANTE

\* line 343, over QScale
calidad_de(qsum) == clamp(qsum * QUALITY_SCALE, -CAL_MAX * QScale, CAL_MAX * QScale)

\* lines 328-330 and 344-353
etq_calidad_de(asp, calidad) ==
    IF ~ asp THEN ETQ_GUION
    ELSE IF calidad >= 5 * QScale THEN "MUY BENEFICO"
    ELSE IF calidad >= 2 * QScale THEN "BENEFICO"
    ELSE IF calidad <= -5 * QScale THEN "MUY MALEFICO"
    ELSE IF calidad <= -2 * QScale THEN "MALEFICO"
    ELSE "MIXTO / AMBIVALENTE"

\* the sort key (-impacto, -abs(calidad)): x strictly before y
Antes(x, y) ==
    \/ x.impacto > y.impacto
    \/ (x.impacto = y.impacto /\ Abs(x.calidad) > Abs(y.calidad))

\* x put into the sorted s after every entry it is not strictly before
RECURSIVE Inserta(_, _)
Inserta(x, s) ==
    IF s = << >> THEN << x >>
    ELSE IF Antes(x, Head(s)) THEN << x >> \o s
    ELSE << Head(s) >> \o Inserta(x, Tail(s))

\* sorted(detalles, key=...): stable
RECURSIVE ordena(_, _)
ordena(s, acc) == IF s = << >> THEN acc ELSE ordena(Tail(s), Inserta(Head(s), acc))

\* mutant of top_hits: the list is cut before it is sorted
top_hits_corta_antes(dets) ==
    ordena(SubSeq(dets, 1, Min(TOP_HITS, Len(dets))), << >>)

\* line 356
top_hits(dets) ==
    LET srt == ordena(dets, << >>) IN SubSeq(srt, 1, Min(TOP_HITS, Len(srt)))

--------------------------------------------------------------------------
(* evalua_termino_con_carta as a process: preparation, one step for each   *)
(* item of posiciones, labelling and return                                *)

\* lines 252-264
Prepara ==
    /\ pc = "prep"
    /\ grado' = Deg(grado_astrogematrico(valor_astrogematrico(normaliza_termino(term))))
    /\ regentes' = regentes_de(posiciones)
    /\ detalles' = << >>
    /\ import_sum' = 0
    /\ quality_sum' = 0
    /\ has_aspect' = FALSE
    /\ has_conj' = FALSE
    /\ idx' = 0
    /\ pc' = "loop"
    /\ UNCHANGED << arg, out, term, posiciones, res >>

\* lines 267-325, one iteration
Recorre ==
    /\ pc = "loop"
    /\ idx < Len(posiciones)
    /\ LET cuerpo == posiciones[idx + 1].cuerpo
           lon    == posiciones[idx + 1].lon
           m      == mejor_aspecto(grado, lon)
           orb_factor == atenuado_por_orbe(m.delta, ASPECTOS[m.nombre].orbe)
           imp    == impacto(cuerpo, m.nombre, orb_factor, regentes)
           q      == calidad_cuerpo(cuerpo, m.nombre, orb_factor, regentes)
       IN  IF m.nombre = ""
           THEN UNCHANGED << has_aspect, has_conj, import_sum, quality_sum, detalles >>
           ELSE /\ has_aspect' = TRUE
                /\ has_conj' = (has_conj \/ m.nombre = Conj)
                /\ IF orb_factor <= 0
                   THEN UNCHANGED << import_sum, quality_sum, detalles >>
                   ELSE /\ import_sum' = import_sum + Abs(imp)
                        /\ quality_sum' = IF cuerpo \in Angulos THEN quality_sum
                                          ELSE quality_sum + q
                        /\ \E ri \in Round3(Abs(imp), ImpScale), rq \in Round3(q, QScale) :
                              detalles' = Append(detalles, detalle(cuerpo, lon, m, ri, rq))
    /\ idx' = idx + 1
    /\ UNCHANGED << pc, arg, out, term, posiciones, grado, regentes, res >>

\* lines 327-378
Etiqueta ==
    /\ pc = "loop"
    /\ idx = Len(posiciones)
    /\ LET tnorm       == normaliza_termino(term)
           importancia == IF has_aspect THEN importancia_de(import_sum, has_conj) ELSE 0
           calidad     == IF has_aspect THEN calidad_de(quality_sum) ELSE 0
           signo_idx   == grado \div Deg(30)
       IN  \E imp_r \in Round2(importancia, ImpScale), cal_r \in Round1(calidad, QScale) :
           res' = [ termino              |-> tnorm,
                    valor_astrogematrico |-> valor_astrogematrico(tnorm),
                    grado_ecliptico      |-> RoundHalfEven(100 * grado, Unit),
                    signo                |-> SIGNOS[signo_idx + 1],
                    grado_en_signo       |-> RoundHalfEven(100 * (grado % Deg(30)), Unit),
                    importancia          |-> imp_r,
                    etq_importancia      |-> etq_importancia_de(has_aspect, importancia),
                    calidad              |-> cal_r,
                    etq_calidad          |-> etq_calidad_de(has_aspect, calidad),
                    regentes_asc         |-> regentes,
                    hits                 |-> top_hits(detalles) ]
    /\ pc' = "done"
    /\ UNCHANGED << arg, out, term, posiciones, idx, grado, regentes, detalles,
                    import_sum, quality_sum, has_aspect, has_conj >>

Next == Prepara \/ Recorre \/ Etiqueta

\* a chart: the items of a mapping from the bodies of S to longitudes, in the
\* order obtener_posiciones inserts them
ChartOf(f) ==
    LET present(c) == c \in DOMAIN f
        sel == SelectSeq(BodyOrder, present)
    IN  [ k \in 1..Len(sel) |-> [cuerpo |-> sel[k], lon |-> f[sel[k]]] ]

\* "AmOr" with an accented O: normalized to AMOR, value 311, degree 49
Terms == { << "A", "m", O_ACUTE, "r" >> }

\* whole degrees: from the degree of the term (49) no aspect (0), a conjunction
\* exact (49), inside its orb (51) and at its boundary (52), a trine (169)
Lons == { Deg(d) : d \in {0, 49, 51, 52, 169} }

Charts(maxBodies, lons) ==
    { ChartOf(f) : f \in UNION { [S -> lons] :
                       S \in { T \in SUBSET Bodies : Cardinality(T) <= maxBodies } } }

InitEval(charts) ==
    /\ pc = "prep"
    /\ term \in Terms
    /\ posiciones \in charts
    /\ arg = None /\ out = None
    /\ idx = 0 /\ grado = 0 /\ regentes = {} /\ detalles = << >>
    /\ import_sum = 0 /\ quality_sum = 0
    /\ has_aspect = FALSE /\ has_conj = FALSE /\ res = None

Init == InitEval(Charts(MaxBodies, Lons))

Spec == Init /\ [][Next]_vars

--------------------------------------------------------------------------
(* The evaluation of a full chart: every planet and Asc, MC on the term's  *)
(* degree or away from any aspect; Desc and IC opposite Asc and MC, as     *)
(* obtener_posiciones derives them                                         *)

HitLons == { Deg(49), Deg(0) }

FullCharts ==
    { ChartOf([ c \in Bodies |->
                  CASE c = "Desc" -> (f["Asc"] + Deg(180)) % Full
                    [] c = "IC"   -> (f["MC"] + Deg(180)) % Full
                    [] OTHER      -> f[c] ]) :
        f \in [Bodies \ {"Desc", "IC"} -> HitLons] }

InitHits == InitEval(FullCharts)

SpecHits == InitHits /\ [][Next]_vars

--------------------------------------------------------------------------
(* The Quality contribution of one planet, for every planet, aspect kind,  *)
(* separation inside the orb and Ascendant sign                            *)

InitContrib ==
    /\ pc = "call"
    /\ \E c \in Planets, n \in AspectKinds, sg \in 0..11 :
         \E delta \in 0..(Deg(ASPECTOS[n].orbe) - 1) :
            arg = [cuerpo |-> c, nombre |-> n, delta |-> delta, asc_sign |-> sg]
    /\ out = None
    /\ EvalIdle

CallCalidad ==
    /\ pc = "call"
    /\ LET regs == REGENTES_CLASICOS[arg.asc_sign]
           orb_factor == atenuado_por_orbe(arg.delta, ASPECTOS[arg.nombre].orbe)
       IN  out' = [ orb_factor |-> orb_factor,
                    es_regente |-> arg.cuerpo \in regs,
                    q |-> calidad_cuerpo(arg.cuerpo, arg.nombre, orb_factor, regs) ]
    /\ pc' = "ret"
    /\ UNCHANGED << arg, evalVars >>

SpecContrib == InitContrib /\ [][CallCalidad]_vars

--------------------------------------------------------------------------
(* Properties *)

Range(s) == { s[k] : k \in 1..Len(s) }
Sign(x) == IF x > 0 THEN 1 ELSE IF x < 0 THEN -1 ELSE 0

\* the separation of two positions on the circle, exactly
Sep(a, b) == LET d == (a - b) % Full IN Min(d, Full - d)

\* the separation is within, or exactly at, the orb of aspect kind n
DentroDeOrbe(a, b, n) == Abs(Sep(a, b) - Deg(ASPECTOS[n].angulo)) <= Deg(ASPECTOS[n].orbe)
EnBordeDeOrbe(a, b, n) == Abs(Sep(a, b) - Deg(ASPECTOS[n].angulo)) = Deg(ASPECTOS[n].orbe)

Terminado == pc = "done"
Cuerpos == { posiciones[k].cuerpo : k \in 1..Len(posiciones) }

\* C1: whatever the term and the chart, the returned Quality is within
\* [-10, 10] (in tenths: -100..100) and the returned Importance is >= 0.
C1_RangoCalidadImportancia ==
    Terminado => (res.calidad >= -100 /\ res.calidad <= 100 /\ res.importancia >= 0)

\* C1 witness: an evaluation whose scaled Quality sum exceeds 10 and is returned as 10.
C1_Witness ==
    Terminado /\ quality_sum * QUALITY_SCALE > CAL_MAX * QScale /\ res.calidad = 100

HayConjuncion ==
    \E k \in 1..Len(posiciones) : mejor_aspecto(grado, posiciones[k].lon).nombre = Conj

\* C2: if the matcher selects a conjunction for some chart body, the returned
\* Importance is >= 2.1 (in hundredths: 210) and its label is the IMPORTANT one.
C2_SueloConjuncion ==
    (Terminado /\ HayConjuncion) =>
        (res.importancia >= 210 /\ res.etq_importancia = ETQ_IMPORTANTE)

\* C2 witness: a conjunction whose contributions sum to less than 2.1, returned as 2.1.
C2_Witness ==
    Terminado /\ HayConjuncion /\ 10 * import_sum < 21 * ImpScale /\ res.importancia = 210

\* x is no weaker than y under (Importance desc, |Quality| desc)
NoMasDebil(x, y) ==
    \/ x.impacto > y.impacto
    \/ (x.impacto = y.impacto /\ Abs(x.calidad) >= Abs(y.calidad))

\* C3: the returned hit list has at most 8 entries, is ordered by Importance
\* contribution descending and then |Quality contribution| descending, and keeps
\* the 8 strongest of the recorded hits: as many as there are up to 8, each a
\* recorded hit, and no dropped hit is stronger than a kept one.
C3_OchoMasFuertes ==
    Terminado =>
        LET h == res.hits
        IN  /\ Len(h) <= 8
            /\ Len(h) = Min(8, Len(detalles))
            /\ \A i, j \in 1..Len(h) : i < j => NoMasDebil(h[i], h[j])
            /\ Range(h) \subseteq Range(detalles)
            /\ Cardinality(Range(h)) = Len(h)
            /\ \A d \in Range(detalles) \ Range(h) : \A x \in Range(h) : NoMasDebil(x, d)

\* C3 witness: more than 8 recorded hits, cut to 8, with two kept hits that tie on
\* Importance and are ordered by |Quality|, and a hit recorded among the first 8
\* that is dropped.
C3_Witness ==
    /\ Terminado
    /\ Len(detalles) > 8
    /\ Len(res.hits) = 8
    /\ \E i \in 1..7 : /\ res.hits[i].impacto = res.hits[i + 1].impacto
                       /\ Abs(res.hits[i].calidad) > Abs(res.hits[i + 1].calidad)
    /\ \E k \in 1..8 : detalles[k] \notin Range(res.hits)

SinCuerpoEnOrbe ==
    \A k \in 1..Len(posiciones) : \A n \in AspectKinds :
        ~ DentroDeOrbe(grado, posiciones[k].lon, n)

\* C4: if no chart body lies within any aspect kind's orb of the term degree,
\* Importance = 0, Quality = 0, the Importance label is the no-aspects one, the
\* Quality label is the dash and the hit list is empty.
C4_SinAspectos ==
    (Terminado /\ SinCuerpoEnOrbe) =>
        /\ res.importancia = 0
        /\ res.calidad = 0
        /\ res.etq_importancia = ETQ_SIN_ASPECTOS
        /\ res.etq_calidad = ETQ_GUION
        /\ res.hits = << >>

\* C4 witness: a chart of two or more bodies, none within an orb, evaluated.
C4_Witness ==
    /\ Terminado /\ SinCuerpoEnOrbe /\ Len(posiciones) >= 2
    /\ res.etq_importancia = ETQ_SIN_ASPECTOS

\* C5 (as claimed): a body exactly at an aspect kind's orb boundary is matched,
\* so the evaluation has an aspect and its Importance label is not the
\* no-aspects one.
C5_BordeCuentaComoAspecto ==
    (Terminado /\ \E k \in 1..Len(posiciones) : \E n \in AspectKinds :
                      EnBordeDeOrbe(grado, posiciones[k].lon, n))
    => (has_aspect /\ res.etq_importancia # ETQ_SIN_ASPECTOS)

\* C6 (as claimed): without an Ascendant entry the evaluation ends with an
\* empty set of ruling bodies.
C6_SinAscSinRegentes ==
    (Terminado /\ "Asc" \notin Cuerpos) => (regentes = {} /\ res.regentes_asc = {})

\* C7 (as claimed): the matcher returns the same kind, delta and weight for
\* (a, b) and (b, a), and a conjunction with delta 0 for (a, a).
C7_Simetria ==
    pc = "ret" =>
        /\ out.ab = out.ba
        /\ arg.a = arg.b => (out.ab.nombre = Conj /\ out.ab.delta = 0)

\* C8: for every integer v the degree is the one in [0, 360) congruent to -v
\* modulo 360, that is (360 - (v mod 360)) mod 360; it is unchanged when 360k is
\* added to v; and the sign index floor(degree/30) is in 0..11.
C8_GradoEnRango ==
    pc = "ret" =>
        /\ out.g \in 0..359
        /\ (out.g + arg.v) % 360 = 0
        /\ out.gk = out.g
        /\ out.signo_idx \in 0..11

\* C8 witness: a positive multiple of 360, shifted by a negative multiple, maps to 0.
C8_Witness ==
    /\ pc = "ret" /\ arg.v > 0 /\ arg.v % 360 = 0 /\ arg.k < 0
    /\ out.g = 0 /\ out.signo_idx = 0

\* C9 (as claimed): an input that contains the lowercase n-tilde or c-cedilla
\* has the capital N-tilde or C-cedilla in its normalized form, and an input
\* that contains another accented letter has its unaccented base letter.
C9_ConservaEspeciales ==
    pc = "ret" =>
        /\ n_tilde \in Range(arg) => N_TILDE \in Range(out)
        /\ c_cedilla \in Range(arg) => C_CEDILLA \in Range(out)
        /\ a_acute \in Range(arg) => "A" \in Range(out)

\* C10: for every planet and every orb factor in (0, 1], the Quality
\* contribution is >= 0 under a trine or sextile, <= 0 under a square or
\* opposition, and has the sign of the planet's valence under a conjunction,
\* whether or not the planet rules the Ascendant.
C10_SignoDeCalidad ==
    pc = "ret" =>
        /\ arg.nombre \in {Trig, Sext} => out.q >= 0
        /\ arg.nombre \in {Cuad, Opos} => out.q <= 0
        /\ arg.nombre = Conj => Sign(out.q) = Sign(PLANET_VALENCE[arg.cuerpo])

\* C10 witness: a ruling planet of negative valence under a trine inside the
\* orb contributes a positive Quality.
C10_Witness ==
    /\ pc = "ret" /\ arg.nombre = Trig /\ PLANET_VALENCE[arg.cuerpo] < 0
    /\ out.es_regente /\ out.orb_factor < OrbScale /\ out.q > 0

\* the loop is about to process an angle for which the matcher selects a kind
AnguloEnAspecto ==
    /\ pc = "loop" /\ idx < Len(posiciones)
    /\ posiciones[idx + 1].cuerpo \in Angulos
    /\ mejor_aspecto(grado, posiciones[idx + 1].lon).nombre # ""

\* C11: the step that processes a chart angle in aspect with the term degree
\* leaves the Quality sum unchanged, records one hit for that angle with
\* Quality 0, and adds to the Importance sum exactly
\* impactWeight(kind) * orbFactor * 1.25 (5/4), whatever the rulers are.
C11_AnguloSoloImportancia ==
    [][ (AnguloEnAspecto /\ idx' = idx + 1) =>
          LET lon    == posiciones[idx + 1].lon
              n      == mejor_aspecto(grado, lon).nombre
              delta  == Abs(Sep(grado, lon) - Deg(ASPECTOS[n].angulo))
              orbFac == OrbScale - (6 * delta) \div ASPECTOS[n].orbe
              added  == import_sum' - import_sum
          IN  /\ quality_sum' = quality_sum
              /\ Len(detalles') = Len(detalles) + 1
              /\ detalles'[Len(detalles')].cuerpo = posiciones[idx + 1].cuerpo
              /\ detalles'[Len(detalles')].es_angulo
              /\ detalles'[Len(detalles')].calidad = 0
              /\ 4 * added = 5 * IMPACT_WEIGHTS[n] * orbFac
                               * (ImpScale \div (WeightDen * OrbScale)) ]_vars

\* C11 witness: after a planet has given a non-zero Quality sum, an angle inside
\* an orb (not exact) has been processed and recorded, in a chart whose
\* Ascendant has a ruler.
C11_Witness ==
    /\ pc = "loop" /\ idx >= 2 /\ quality_sum # 0 /\ regentes # {}
    /\ posiciones[idx].cuerpo \in Angulos
    /\ detalles # << >>
    /\ detalles[Len(detalles)].cuerpo = posiciones[idx].cuerpo
    /\ detalles[Len(detalles)].orb > 0
    /\ detalles[Len(detalles)].calidad = 0

--------------------------------------------------------------------------
(* The /evaluate handler of the HTTP service up to the chart: coordinate  *)
(* resolution, time zone, chart.  Coordinates are in seconds of arc.      *)

SecPerDeg == 3600
SecPerMin == 60

\* an exception that leaves a call, and the absence of a tuple (None)
ValueError == << "ValueError" >>
SinTupla == << >>
SIN_RESPUESTA == 0
HTTP_OK == 200
HTTP_BAD_REQUEST == 400
HTTP_INTERNAL == 500
DETALLE_FALTAN == "Faltan city/country o lat/lon"
DETALLE_FECHA == "Fecha/Hora invalidas. Usa YYYY/MM/DD y HH:MM."
ZONA_DEFECTO == "+01:00"

\* Python truthiness of an Optional[str]
truthy(s) == s # None /\ s # ""

\* b.city or ""
o_vacio(s) == IF truthy(s) THEN s ELSE ""

\* the value of dec_to_flatlib_coord: degrees, hemisphere letter, minutes
dec_to_flatlib_coord(dec, is_lat) ==
    LET hemi == IF is_lat THEN (IF dec >= 0 THEN "n" ELSE "s")
                          ELSE (IF dec >= 0 THEN "e" ELSE "w")
        v    == Abs(dec)
        deg  == v \div SecPerDeg
        mins == RoundHalfEven(v - deg * SecPerDeg, SecPerMin)
    IN  IF mins = 60 THEN [deg |-> deg + 1, hemi |-> hemi, min |-> 0]
        ELSE [deg |-> deg, hemi |-> hemi, min |-> mins]

\* dms_to_float on the texts a request may carry: a decimal, a
\* degrees:minutes text with a hemisphere letter, and texts float() rejects
dms_to_float(s) ==
    CASE s = "40.4"   -> << 40 * SecPerDeg + 24 * SecPerMin >>
      [] s = "40:25N" -> << 40 * SecPerDeg + 25 * SecPerMin >>
      [] s = "-3.7"   -> << -(3 * SecPerDeg + 42 * SecPerMin) >>
      [] s = "3:42W"  -> << -(3 * SecPerDeg + 42 * SecPerMin) >>
      [] OTHER        -> SinTupla

\* parse_geopos: the 4-tuple, or the exception that leaves it
parse_geopos(user_lat, user_lon) ==
    LET lat == dms_to_float(user_lat)
        lon == dms_to_float(user_lon)
    IN  IF lat = SinTupla \/ lon = SinTupla THEN ValueError
        ELSE << dec_to_flatlib_coord(lat[1], TRUE), dec_to_flatlib_coord(lon[1], FALSE),
                lat[1], lon[1] >>

\* what geocode_city can return for a query: nothing (not found, or the
\* geocoder failed), or the tuple of a location the geocoder knows
Lugares == { [lat |-> 40 * SecPerDeg + 25 * SecPerMin,
              lon |-> -(3 * SecPerDeg + 42 * SecPerMin + 14)] }
geocode_city(city, country) ==
    { SinTupla } \cup { << dec_to_flatlib_coord(l.lat, TRUE),
                       dec_to_flatlib_coord(l.lon, FALSE), l.lat, l.lon >> : l \in Lugares }

\* mutant of faltan_manuales: rejects only when both lat and lon are missing
faltan_las_dos(b) == ~(truthy(b.lat) \/ truthy(b.lon))

\* not (b.lat and b.lon)
faltan_manuales(b) == ~(truthy(b.lat) /\ truthy(b.lon))

\* strptime(..., "%Y/%m/%d %H:%M") accepts the text
fecha_valida(date, time) == date = "1990/05/17" /\ time = "12:30"

Ciudades == { None, "", "Madrid" }
Paises   == { None, "", "Spain" }
Latitudes  == { None, "", "40.4", "40:25N", "abc" }
Longitudes == { None, "", "-3.7", "3:42W", "abc" }
Fechas == { "1990/05/17", "17-05-1990" }

out0 ==
    [status |-> SIN_RESPUESTA, detail |-> None, geo_tried |-> FALSE,
     geo |-> SinTupla, origen |-> None, coords |-> SinTupla, zona |-> None,
     chart |-> FALSE]

InitCoords ==
    /\ pc = "recv"
    /\ \E c \in Ciudades, p \in Paises, la \in Latitudes, lo \in Longitudes,
          d \in Fechas :
          arg = [city |-> c, country |-> p, lat |-> la, lon |-> lo,
                 date |-> d, time |-> "12:30"]
    /\ out = out0
    /\ EvalIdle

\* an HTTPException, or an exception caught by the global handler
rechaza(o, status, detail) == [o EXCEPT !.status = status, !.detail = detail]

\* _resolve_coords, called by the handler
ResolveCoords ==
    /\ pc = "recv"
    /\ \E geo \in (IF truthy(arg.city) \/ truthy(arg.country)
                   THEN geocode_city(o_vacio(arg.city), o_vacio(arg.country))
                   ELSE { SinTupla }) :
          LET o1 == [out EXCEPT !.geo_tried = truthy(arg.city) \/ truthy(arg.country),
                                !.geo = geo]
          IN  IF geo # SinTupla
              THEN /\ out' = [o1 EXCEPT !.origen = "geo", !.coords = geo]
                   /\ pc' = "tz"
              ELSE IF faltan_manuales(arg)
              THEN /\ out' = rechaza(o1, HTTP_BAD_REQUEST, DETALLE_FALTAN)
                   /\ pc' = "done"
              ELSE LET t == parse_geopos(arg.lat, arg.lon)
                   IN  IF t = ValueError
                       THEN /\ out' = rechaza(o1, HTTP_INTERNAL, ValueError[1])
                            /\ pc' = "done"
                       ELSE /\ out' = [o1 EXCEPT !.origen = "manual", !.coords = t]
                            /\ pc' = "tz"
    /\ UNCHANGED << arg, evalVars >>

\* _resolve_tz: the offset found for the coordinates, or the default
ResolveTz ==
    /\ pc = "tz"
    /\ IF ~fecha_valida(arg.date, arg.time)
       THEN /\ out' = rechaza(out, HTTP_BAD_REQUEST, DETALLE_FECHA)
            /\ pc' = "done"
       ELSE /\ \E z \in { None, "+02:00" } :
                 out' = [out EXCEPT !.zona = IF z = None THEN ZONA_DEFECTO ELSE z]
            /\ pc' = "chart"
    /\ UNCHANGED << arg, evalVars >>

\* Datetime, GeoPos, Chart and the response
CalculaCarta ==
    /\ pc = "chart"
    /\ out' = [out EXCEPT !.chart = TRUE, !.status = HTTP_OK]
    /\ pc' = "done"
    /\ UNCHANGED << arg, evalVars >>

NextCoords == ResolveCoords \/ ResolveTz \/ CalculaCarta
SpecCoords == InitCoords /\ [][NextCoords]_vars

\* C12: once coordinate resolution has run, geocoding was tried exactly when
\* a city or a country was given; the coordinates are the geocoder's when it
\* gave any, and otherwise those parsed from the manual lat/lon; the request
\* is rejected with the 400 of coordinate resolution exactly when the
\* geocoder gave nothing and lat or lon is missing, and then no chart is
\* computed.
C12_ResolucionDeCoordenadas ==
    pc # "recv" =>
      LET sin_geo  == out.geo = SinTupla
          falta    == ~truthy(arg.lat) \/ ~truthy(arg.lon)
          rechazo  == out.status = HTTP_BAD_REQUEST /\ out.detail = DETALLE_FALTAN
      IN  /\ out.geo_tried <=> (truthy(arg.city) \/ truthy(arg.country))
          /\ ~out.geo_tried => sin_geo
          /\ ~sin_geo => (out.origen = "geo" /\ out.coords = out.geo)
          /\ (sin_geo /\ ~falta) =>
                \/ out.origen = "manual" /\ out.coords = parse_geopos(arg.lat, arg.lon)
                \/ out.status = HTTP_INTERNAL /\ parse_geopos(arg.lat, arg.lon) = ValueError
          /\ rechazo <=> (sin_geo /\ falta)
          /\ rechazo => (~out.chart /\ out.coords = SinTupla /\ pc = "done")

\* C12 witness: the geocoder was tried for a city, gave nothing, and the
\* manual coordinates were parsed and carried through to the chart.
C12_Witness ==
    /\ pc = "done" /\ out.chart /\ out.geo_tried /\ out.geo = SinTupla
    /\ out.origen = "manual" /\ arg.lat = "40:25N" /\ arg.lon = "3:42W"
    /\ out.coords[1] = [deg |-> 40, hemi |-> "n", min |-> 25]

--------------------------------------------------------------------------
(* The evaluation of one mapping iterated in two orders: first in the     *)
(* order obtener_posiciones inserts the bodies, then in a permutation     *)

OrdenCuerpos == { "Mars", "Saturn", "Neptune" }

\* from the term's degree (49): an opposition and a square 2 degrees inside
\* their orbs (227, 137), and no aspect (0)
OrdenLons == { Deg(227), Deg(137), Deg(0) }

Permutaciones(pos) ==
    { p \in [1..Len(pos) -> Range(pos)] :
        \A i, j \in 1..Len(pos) : i # j => p[i] # p[j] }

\* the values `import_sum += abs(imp)` adds, in iteration order
aportes_imp(pos, g, regs) ==
    LET en_aspecto(e) == mejor_aspecto(g, e.lon).nombre # ""
        hits == SelectSeq(pos, en_aspecto)
    IN  [ k \in 1..Len(hits) |->
            LET m == mejor_aspecto(g, hits[k].lon)
            IN  Abs(impacto(hits[k].cuerpo, m.nombre,
                            atenuado_por_orbe(m.delta, ASPECTOS[m.nombre].orbe), regs)) ]

\* the non-zero values `quality_sum += q` adds, in iteration order
aportes_q(pos, g, regs) ==
    LET q_de(e) == LET m == mejor_aspecto(g, e.lon)
                   IN  calidad_cuerpo(e.cuerpo, m.nombre,
                           atenuado_por_orbe(m.delta, ASPECTOS[m.nombre].orbe), regs)
        aporta(e) == /\ mejor_aspecto(g, e.lon).nombre # ""
                     /\ e.cuerpo \notin Angulos
                     /\ q_de(e) # 0
        hits == SelectSeq(pos, aporta)
    IN  [ k \in 1..Len(hits) |-> q_de(hits[k]) ]

\* float addition is commutative but not associative: two sequences of
\* addends give the same float sum when they are equal, or equal after
\* exchanging the first two addends
misma_suma(a, b) ==
    \/ a = b
    \/ /\ Len(a) = Len(b) /\ Len(a) >= 2
       /\ a[1] = b[2] /\ a[2] = b[1]
       /\ \A k \in 3..Len(a) : a[k] = b[k]

\* what the claim compares of a finished evaluation
agregado ==
    [ importancia |-> res.importancia, etq_importancia |-> res.etq_importancia,
      calidad |-> res.calidad, etq_calidad |-> res.etq_calidad,
      has_aspect |-> has_aspect, has_conj |-> has_conj ]

InitOrden ==
    /\ pc = "prep"
    /\ term \in Terms
    /\ \E f \in [OrdenCuerpos -> OrdenLons] :
          /\ posiciones = ChartOf(f)
          /\ arg \in Permutaciones(ChartOf(f))
    /\ out = SinTupla
    /\ idx = 0 /\ grado = 0 /\ regentes = {} /\ detalles = << >>
    /\ import_sum = 0 /\ quality_sum = 0
    /\ has_aspect = FALSE /\ has_conj = FALSE /\ res = None

\* the first evaluation is kept and the same mapping is given in the other order
Reordena ==
    /\ pc = "done"
    /\ out = SinTupla
    /\ out' = << [agregado |-> agregado, posiciones |-> posiciones] >>
    /\ posiciones' = arg
    /\ pc' = "prep"
    /\ UNCHANGED << arg, term, idx, grado, regentes, detalles, import_sum,
                    quality_sum, has_aspect, has_conj, res >>

\* the second evaluation adds up the same float sums as the first
MismasSumas ==
    /\ out # SinTupla
    /\ misma_suma(aportes_imp(out[1].posiciones, grado, regentes),
                  aportes_imp(posiciones, grado, regentes))
    /\ misma_suma(aportes_q(out[1].posiciones, grado, regentes),
                  aportes_q(posiciones, grado, regentes))

\* lines 327-378; the same float sums are rounded the same way
EtiquetaOrden ==
    /\ Etiqueta
    /\ MismasSumas => agregado' = out[1].agregado

NextOrden == Prepara \/ Recorre \/ EtiquetaOrden \/ Reordena
SpecOrden == InitOrden /\ [][NextOrden]_vars

\* C13: when the same mapping has been evaluated in two iteration orders, the
\* returned Importance and Quality, the has-aspect and has-conjunction flags
\* and both labels of the second evaluation are those of the first.
C13_IndependienteDelOrden ==
    (pc = "done" /\ out # SinTupla) => agregado = out[1].agregado

==========================================================================
